---- MODULE Spec2Model ----
(***************************************************************************)
(* Fuzzy task search of nez-tasks: SearchController (matcher, highlighter, *)
(* ranking, selection cursor) together with the parts of App that feed it  *)
(* (the task list) and that it calls on commit (navigation, task modal).   *)
(* Strings are sequences of one-character strings; indices into a string   *)
(* are 0-based as in the JavaScript source, so text[i] is written          *)
(* text[i + 1].                                                            *)
(***************************************************************************)
EXTENDS Integers, Sequences, FiniteSets, TLC

VARIABLES
  projectConfig,        \* App.projectConfig is set (project loaded)
  tasks,                \* App.tasks
  currentView,          \* App.currentView
  currentSprintId,      \* App.currentSprintId (0 stands for null)
  modalActive,          \* #searchModal carries the class 'active'
  inputValue,           \* #searchInput.value
  searchResults,        \* SearchController.searchResults
  searchSelectedIndex,  \* SearchController.searchSelectedIndex
  emitted,              \* tasks handed to showTaskModal by the last step
  lastOp,               \* handler run by the last step
  lastDir,              \* direction argument of the last navigateResults
  pre,                  \* what the session looked like before the last step
  threw,                \* the handler of the last step ended in a TypeError
  argText,              \* direct call: the text argument
  argOther,             \* direct call: a second text matched with the same query
  argQuery,             \* direct call: the query argument of fuzzyMatch
  argPositions,         \* direct call: the matches argument of highlightMatches
  retMatch,             \* direct call: fuzzyMatch(argText, argQuery)
  retOther,             \* direct call: fuzzyMatch(argOther, argQuery)
  retHighlight,         \* direct call: highlightMatches(argText, argPositions)
  callPc                \* direct call: "idle", "matched" or "highlighted"

sessionVars == <<projectConfig, tasks, currentView, currentSprintId,
                 modalActive, inputValue, searchResults, searchSelectedIndex,
                 emitted, lastOp, lastDir, pre, threw>>

callVars == <<argText, argOther, argQuery, argPositions, retMatch, retOther,
              retHighlight, callPc>>

vars == <<sessionVars, callVars>>

----------------------------------------------------------------------------
(* Bounds and inputs *)

\* longest task list the host loads
MaxTasks == 11

\* short task lists are windows of Pool starting at one of its first
\* MaxStart tasks
MaxStart == 2

\* slice(0, 10) in performSearch
ResultLimit == 10

\* sprint: null
NoSprint == 0

\* task files of a project, in the order getAllTasks returns them (by id)
Pool ==
  <<
    \* "Fix login bug"
    [id |-> 1, sprint |-> 1,
     title |-> <<"F","i","x"," ","l","o","g","i","n"," ","b","u","g">>],
    \* "Add login page"
    [id |-> 2, sprint |-> 0,
     title |-> <<"A","d","d"," ","l","o","g","i","n"," ","p","a","g","e">>],
    \* "Investigate flaky deploy job"
    [id |-> 3, sprint |-> 0,
     title |-> <<"I","n","v","e","s","t","i","g","a","t","e"," ","f","l","a","k","y"," ","d","e","p","l","o","y"," ","j","o","b">>],
    \* "Login"
    [id |-> 4, sprint |-> 1,
     title |-> <<"L","o","g","i","n">>],
    \* "Login flow"
    [id |-> 5, sprint |-> 0,
     title |-> <<"L","o","g","i","n"," ","f","l","o","w">>],
    \* "User login flow"
    [id |-> 6, sprint |-> 1,
     title |-> <<"U","s","e","r"," ","l","o","g","i","n"," ","f","l","o","w">>],
    \* "Deploy service"
    [id |-> 7, sprint |-> 0,
     title |-> <<"D","e","p","l","o","y"," ","s","e","r","v","i","c","e">>],
    \* "Changelog page"
    [id |-> 8, sprint |-> 0,
     title |-> <<"C","h","a","n","g","e","l","o","g"," ","p","a","g","e">>],
    \* "Blog post editor"
    [id |-> 9, sprint |-> 1,
     title |-> <<"B","l","o","g"," ","p","o","s","t"," ","e","d","i","t","o","r">>],
    \* "Audit log export"
    [id |-> 10, sprint |-> 0,
     title |-> <<"A","u","d","i","t"," ","l","o","g"," ","e","x","p","o","r","t">>],
    \* "Onboarding checklist"
    [id |-> 11, sprint |-> 0,
     title |-> <<"O","n","b","o","a","r","d","i","n","g"," ","c","h","e","c","k","l","i","s","t">>],
    \* "Dialog close & reopen"
    [id |-> 12, sprint |-> 0,
     title |-> <<"D","i","a","l","o","g"," ","c","l","o","s","e"," ","&"," ","r","e","o","p","e","n">>],
    \* "Logout"
    [id |-> 13, sprint |-> 0,
     title |-> <<"L","o","g","o","u","t">>]
  >>

\* title: null, the value parseMarkdown gives a 'title:' line without a
\* value; it is no string: its one element is not a character
Null == <<"null">>

\* a task file edited by hand, its title line left empty
MalformedTask == [id |-> 14, sprint |-> 0, title |-> Null]

Min(a, b) == IF a < b THEN a ELSE b

\* the task lists getAllTasks can return: none, one or two tasks, or the
\* first MaxTasks tasks of the project
TaskLists ==
  {SubSeq(Pool, s, s + n - 1) : s \in 1..MaxStart, n \in 0..2}
    \cup {SubSeq(Pool, 1, Min(Len(Pool), MaxTasks))}

\* the task lists getAllTasks returns when the tasks directory also holds
\* the malformed file
MalformedTaskLists ==
  {Append(SubSeq(Pool, s, s + n - 1), MalformedTask) :
     s \in 1..MaxStart, n \in 0..2}

\* highlightMatches is called directly on texts of at most this length
MaxHighlightLen == 6

\* texts fuzzyMatch and highlightMatches are called on directly: the task
\* titles, the empty title, and titles with characters escapeHtml rewrites
Texts ==
  {Pool[k].title : k \in 1..Len(Pool)}
    \cup {<<>>, <<"Q","&","A">>, <<"<","b",">","o","k">>}

\* what the user can have typed into #searchInput
Queries ==
  {<<>>, <<" ">>, <<"l","o","g">>, <<"o">>, <<"i","b">>, <<"x","y","z">>,
   <<"l","o","g","i","n">>}

\* queries fuzzyMatch is called on directly
MatchQueries ==
  Queries \cup
    {<<"l","o","g","i","n">>, <<"L","O","G">>, <<"d","p","y">>,
     <<"g","o","l">>, <<"o","o">>, <<"&">>,
     <<"l","o","g","i","n"," ","f","l","o","w">>}

\* the elements of a set of numbers in increasing order
RECURSIVE sortedSeq(_)
sortedSeq(S) ==
  IF S = {} THEN <<>>
  ELSE LET m == CHOOSE x \in S : \A y \in S : x <= y
       IN <<m>> \o sortedSeq(S \ {m})

\* the strictly increasing lists of indices into a text that
\* highlightMatches is called on directly
PositionLists(t) ==
  IF Len(t) <= MaxHighlightLen
  THEN {sortedSeq(S) : S \in SUBSET (0..(Len(t) - 1))}
  ELSE {}

----------------------------------------------------------------------------
(* String primitives of the JavaScript runtime *)

UpperChars ==
  <<"A","B","C","D","E","F","G","H","I","J","K","L","M",
    "N","O","P","Q","R","S","T","U","V","W","X","Y","Z">>

LowerChars ==
  <<"a","b","c","d","e","f","g","h","i","j","k","l","m",
    "n","o","p","q","r","s","t","u","v","w","x","y","z">>

toLowerCaseChar(c) ==
  IF \E k \in 1..Len(UpperChars) : UpperChars[k] = c
  THEN LowerChars[CHOOSE k \in 1..Len(UpperChars) : UpperChars[k] = c]
  ELSE c

\* mutant of toLowerCase: the string is compared as typed
toLowerCase_asTyped(s) == s

toLowerCase(s) == [k \in 1..Len(s) |-> toLowerCaseChar(s[k])]

WhiteSpace == {" "}

\* a % n of JavaScript for n > 0: the result takes the sign of a
jsRemainder(a, n) == IF a >= 0 THEN a % n ELSE 0 - ((0 - a) % n)

RECURSIVE trimStart(_)
trimStart(s) ==
  IF s # <<>> /\ Head(s) \in WhiteSpace THEN trimStart(Tail(s)) ELSE s

RECURSIVE trimEnd(_)
trimEnd(s) ==
  IF s # <<>> /\ s[Len(s)] \in WhiteSpace
  THEN trimEnd(SubSeq(s, 1, Len(s) - 1))
  ELSE s

trim(s) == trimEnd(trimStart(s))

startsWith(s, p) == Len(p) <= Len(s) /\ SubSeq(s, 1, Len(p)) = p

\* text.substring(from, to), 0-based, to exclusive
substring(s, from, to) == SubSeq(s, from + 1, to)

escapeHtmlChar(c) ==
  CASE c = "&" -> <<"&","a","m","p",";">>
    [] c = "<" -> <<"&","l","t",";">>
    [] c = ">" -> <<"&","g","t",";">>
    [] OTHER -> <<c>>

RECURSIVE escapeHtmlChars(_)
escapeHtmlChars(s) ==
  IF s = <<>> THEN <<>>
  ELSE escapeHtmlChar(Head(s)) \o escapeHtmlChars(Tail(s))

\* div.textContent = text; return div.innerHTML (textContent = null gives '')
escapeHtml(s) == IF s = Null THEN <<>> ELSE escapeHtmlChars(s)

----------------------------------------------------------------------------
(* SearchController.fuzzyMatch *)

\* mutant of scanMatches: the loop starts at index 1
RECURSIVE scanMatches_fromOne(_, _, _, _)
scanMatches_fromOne(textLower, queryLower, i, matches) ==
  LET from == IF i = 0 THEN 1 ELSE i
  IN IF from < Len(textLower) /\ Len(matches) < Len(queryLower)
     THEN IF textLower[from + 1] = queryLower[Len(matches) + 1]
          THEN scanMatches_fromOne(textLower, queryLower, from + 1,
                                   Append(matches, from))
          ELSE scanMatches_fromOne(textLower, queryLower, from + 1, matches)
     ELSE matches

\* mutant of scanMatches: a matched character is looked at again for the
\* next query character
RECURSIVE scanMatches_reuse(_, _, _, _)
scanMatches_reuse(textLower, queryLower, i, matches) ==
  IF i < Len(textLower) /\ Len(matches) < Len(queryLower)
  THEN IF textLower[i + 1] = queryLower[Len(matches) + 1]
       THEN scanMatches_reuse(textLower, queryLower, i, Append(matches, i))
       ELSE scanMatches_reuse(textLower, queryLower, i + 1, matches)
  ELSE matches

\* the subsequence scan: i is the loop index, Len(matches) is queryIdx
RECURSIVE scanMatches(_, _, _, _)
scanMatches(textLower, queryLower, i, matches) ==
  IF i < Len(textLower) /\ Len(matches) < Len(queryLower)
  THEN IF textLower[i + 1] = queryLower[Len(matches) + 1]
       THEN scanMatches(textLower, queryLower, i + 1, Append(matches, i))
       ELSE scanMatches(textLower, queryLower, i + 1, matches)
  ELSE matches

consecutiveBonus(matches) ==
  50 * Cardinality({i \in 2..Len(matches) : matches[i] = matches[i - 1] + 1})

totalGaps(matches) ==
  matches[Len(matches)] - matches[1] - (Len(matches) - 1)

\* mutant of matchScore: the prefix bonus is an else-branch of the exact one
matchScore_elseIf(textLower, queryLower, matches) ==
  100
  + (IF textLower = queryLower THEN 1000
     ELSE IF startsWith(textLower, queryLower) THEN 500 ELSE 0)
  + consecutiveBonus(matches)
  - matches[1] * 2
  - totalGaps(matches) * 5

\* mutant of matchScore: no bonus for the exact match
matchScore_noExactBonus(textLower, queryLower, matches) ==
  100
  + (IF startsWith(textLower, queryLower) THEN 500 ELSE 0)
  + consecutiveBonus(matches)
  - matches[1] * 2
  - totalGaps(matches) * 5

matchScore(textLower, queryLower, matches) ==
  100
  + (IF textLower = queryLower THEN 1000 ELSE 0)
  + (IF startsWith(textLower, queryLower) THEN 500 ELSE 0)
  + consecutiveBonus(matches)
  - matches[1] * 2
  - totalGaps(matches) * 5

\* mutant of fuzzyMatch: the exact-match bonus compares the strings as typed
fuzzyMatch_exactAsTyped(text, query) ==
  IF query = <<>>
  THEN [score |-> 0, matches |-> <<>>]
  ELSE LET textLower == toLowerCase(text)
           queryLower == toLowerCase(query)
           matches == scanMatches(textLower, queryLower, 0, <<>>)
       IN IF Len(matches) # Len(queryLower)
          THEN [score |-> -1, matches |-> <<>>]
          ELSE [score |-> matchScore(textLower, queryLower, matches)
                            - (IF textLower = queryLower /\ text # query
                               THEN 1000 ELSE 0),
                matches |-> matches]

\* mutant of fuzzyMatch: the empty query gets the base score
fuzzyMatch_emptyScored(text, query) ==
  IF query = <<>>
  THEN [score |-> 100, matches |-> <<>>]
  ELSE LET textLower == toLowerCase(text)
           queryLower == toLowerCase(query)
           matches == scanMatches(textLower, queryLower, 0, <<>>)
       IN IF Len(matches) # Len(queryLower)
          THEN [score |-> -1, matches |-> <<>>]
          ELSE [score |-> matchScore(textLower, queryLower, matches),
                matches |-> matches]

\* text.toLowerCase() on a title that is no string is a TypeError
fuzzyMatchThrows(text, query) == query # <<>> /\ text = Null

fuzzyMatch(text, query) ==
  IF query = <<>>
  THEN [score |-> 0, matches |-> <<>>]
  ELSE LET textLower == toLowerCase(text)
           queryLower == toLowerCase(query)
           matches == scanMatches(textLower, queryLower, 0, <<>>)
       IN IF Len(matches) # Len(queryLower)
          THEN [score |-> -1, matches |-> <<>>]
          ELSE [score |-> matchScore(textLower, queryLower, matches),
                matches |-> matches]

----------------------------------------------------------------------------
(* SearchController.highlightMatches *)

MarkOpen == <<"<","m","a","r","k",">">>

MarkClose == <<"<","/","m","a","r","k",">">>

\* mutant of groupMatches: consecutive positions are not merged
RECURSIVE groupMatches_noMerge(_, _, _, _, _)
groupMatches_noMerge(matches, i, groupStart, groupEnd, groups) ==
  IF i < Len(matches)
  THEN groupMatches_noMerge(matches, i + 1, matches[i + 1], matches[i + 1],
                            Append(groups, <<groupStart, groupEnd>>))
  ELSE Append(groups, <<groupStart, groupEnd>>)

\* the grouping loop: i is the loop index; returns the list of [start, end]
RECURSIVE groupMatches(_, _, _, _, _)
groupMatches(matches, i, groupStart, groupEnd, groups) ==
  IF i < Len(matches)
  THEN IF matches[i + 1] = groupEnd + 1
       THEN groupMatches(matches, i + 1, groupStart, matches[i + 1], groups)
       ELSE groupMatches(matches, i + 1, matches[i + 1], matches[i + 1],
                         Append(groups, <<groupStart, groupEnd>>))
  ELSE Append(groups, <<groupStart, groupEnd>>)

\* mutant of buildHighlighted: the marked substring ends one character early
RECURSIVE buildHighlighted_shortMark(_, _, _, _)
buildHighlighted_shortMark(text, groups, k, lastIdx) ==
  IF k <= Len(groups)
  THEN escapeHtml(substring(text, lastIdx, groups[k][1]))
       \o MarkOpen
       \o escapeHtml(substring(text, groups[k][1], groups[k][2]))
       \o MarkClose
       \o buildHighlighted_shortMark(text, groups, k + 1, groups[k][2] + 1)
  ELSE escapeHtml(substring(text, lastIdx, Len(text)))

\* the building loop over groups k..Len(groups), then the tail of the text
RECURSIVE buildHighlighted(_, _, _, _)
buildHighlighted(text, groups, k, lastIdx) ==
  IF k <= Len(groups)
  THEN escapeHtml(substring(text, lastIdx, groups[k][1]))
       \o MarkOpen
       \o escapeHtml(substring(text, groups[k][1], groups[k][2] + 1))
       \o MarkClose
       \o buildHighlighted(text, groups, k + 1, groups[k][2] + 1)
  ELSE escapeHtml(substring(text, lastIdx, Len(text)))

highlightMatches(text, matches) ==
  IF Len(matches) = 0
  THEN escapeHtml(text)
  ELSE buildHighlighted(text,
         groupMatches(matches, 1, matches[1], matches[1], <<>>), 1, 0)

----------------------------------------------------------------------------
(* SearchController.performSearch: the ranking pipeline *)

\* .slice(0, 10)
slice10(s) == SubSeq(s, 1, Min(Len(s), ResultLimit))

\* .filter(r => r.score >= 0)
keepResult(r) == r.score >= 0

\* mutant of insertSorted: an entry goes in front of entries of equal score
insertSorted_unstable(sorted, r) ==
  LET k == Cardinality({j \in 1..Len(sorted) : sorted[j].score > r.score})
  IN SubSeq(sorted, 1, k) \o <<r>> \o SubSeq(sorted, k + 1, Len(sorted))

\* .sort((a, b) => b.score - a.score): Array.prototype.sort is stable, so an
\* entry goes behind every entry already placed whose score is not smaller
insertSorted(sorted, r) ==
  LET k == Cardinality({j \in 1..Len(sorted) : sorted[j].score >= r.score})
  IN SubSeq(sorted, 1, k) \o <<r>> \o SubSeq(sorted, k + 1, Len(sorted))

\* mutant of sortByScore: a sort that is not stable (equal scores come out
\* in reverse order)
RECURSIVE sortByScore_reverseTies(_)
sortByScore_reverseTies(s) ==
  IF s = <<>> THEN <<>>
  ELSE insertSorted(sortByScore_reverseTies(Tail(s)), Head(s))

RECURSIVE sortByScore(_)
sortByScore(s) ==
  IF s = <<>> THEN <<>>
  ELSE insertSorted(sortByScore(SubSeq(s, 1, Len(s) - 1)), s[Len(s)])

\* .map(task => ({ task, highlighted, score })) of the fuzzy branch
fuzzyEntry(task, query) ==
  LET result == fuzzyMatch(task.title, query)
  IN [task |-> task,
      highlighted |-> highlightMatches(task.title, result.matches),
      score |-> result.score]

\* .map(task => ({ task, highlighted, score: 0 })) of the browse branch
browseEntry(task) ==
  [task |-> task, highlighted |-> escapeHtml(task.title), score |-> 0]

\* the .map of the fuzzy branch throws at the first title fuzzyMatch
\* cannot lower-case
rankingThrows(taskList, query) ==
  /\ trim(query) # <<>>
  /\ \E k \in 1..Len(taskList) : fuzzyMatchThrows(taskList[k].title, query)

\* mutant of rankedResults: only the empty string counts as no query
rankedResults_noTrim(taskList, query) ==
  IF query = <<>>
  THEN LET shown == slice10(taskList)
       IN [k \in 1..Len(shown) |-> browseEntry(shown[k])]
  ELSE slice10(sortByScore(
         SelectSeq([k \in 1..Len(taskList) |-> fuzzyEntry(taskList[k], query)],
                   keepResult)))

\* the value performSearch(query) assigns to this.searchResults
rankedResults(taskList, query) ==
  IF trim(query) = <<>>
  THEN LET shown == slice10(taskList)
       IN [k \in 1..Len(shown) |-> browseEntry(shown[k])]
  ELSE slice10(sortByScore(
         SelectSeq([k \in 1..Len(taskList) |-> fuzzyEntry(taskList[k], query)],
                   keepResult)))

----------------------------------------------------------------------------
(* State machine: App and SearchController handlers *)

\* value of the result variables of a direct call before the call
NoResult == [score |-> 0, matches |-> <<>>]

\* the session as the step that is about to run finds it
session ==
  [active |-> modalActive,
   moved |-> searchSelectedIndex # 0,
   typed |-> inputValue # <<>>]

SessionInit ==
  /\ projectConfig = FALSE
  /\ tasks = <<>>
  /\ currentView = "backlog"
  /\ currentSprintId = NoSprint
  /\ modalActive = FALSE
  /\ inputValue = <<>>
  /\ searchResults = <<>>
  /\ searchSelectedIndex = 0
  /\ emitted = <<>>
  /\ lastOp = "init"
  /\ lastDir = 0
  /\ pre = [active |-> FALSE, moved |-> FALSE, typed |-> FALSE]
  /\ threw = FALSE

\* no direct call has been made
CallIdle ==
  /\ argOther = <<>>
  /\ argQuery = <<>>
  /\ argPositions = <<>>
  /\ retMatch = NoResult
  /\ retOther = NoResult
  /\ retHighlight = <<>>
  /\ callPc = "idle"

Init ==
  /\ SessionInit
  /\ argText = <<>>
  /\ CallIdle

\* App.selectFolder / App.tryRestoreProject -> App.loadProject, the first
\* load; on a loaded project it does what loadAllData does
loadProject(newTasks) ==
  /\ ~projectConfig
  /\ projectConfig' = TRUE
  /\ tasks' = newTasks
  /\ emitted' = <<>>
  /\ lastOp' = "loadProject"
  /\ lastDir' = 0
  /\ pre' = session
  /\ threw' = FALSE
  /\ UNCHANGED callVars
  /\ UNCHANGED <<currentView, currentSprintId, modalActive, inputValue,
                 searchResults, searchSelectedIndex>>

\* App.loadAllData after a task was created, updated, moved or deleted
loadAllData(newTasks) ==
  /\ projectConfig
  /\ tasks' = newTasks
  /\ emitted' = <<>>
  /\ lastOp' = "loadAllData"
  /\ lastDir' = 0
  /\ pre' = session
  /\ threw' = FALSE
  /\ UNCHANGED callVars
  /\ UNCHANGED <<projectConfig, currentView, currentSprintId, modalActive,
                 inputValue, searchResults, searchSelectedIndex>>

\* mutant of show: ranks with whatever the input still holds
show_keepQuery ==
  /\ projectConfig
  /\ modalActive' = TRUE
  /\ searchSelectedIndex' = 0
  /\ searchResults' = rankedResults(tasks, inputValue)
  /\ emitted' = <<>>
  /\ lastOp' = "show"
  /\ lastDir' = 0
  /\ pre' = session
  /\ threw' = FALSE
  /\ UNCHANGED callVars
  /\ UNCHANGED <<projectConfig, tasks, currentView, currentSprintId, inputValue>>

\* SearchController.show (search bar button, Ctrl+K)
show ==
  /\ projectConfig
  /\ modalActive' = TRUE
  /\ inputValue' = <<>>
  /\ searchSelectedIndex' = 0
  /\ searchResults' = rankedResults(tasks, <<>>)
  /\ emitted' = <<>>
  /\ lastOp' = "show"
  /\ lastDir' = 0
  /\ pre' = session
  /\ threw' = FALSE
  /\ UNCHANGED callVars
  /\ UNCHANGED <<projectConfig, tasks, currentView, currentSprintId>>

\* SearchController.hide (Escape, click on the overlay)
hide ==
  /\ modalActive' = FALSE
  /\ inputValue' = <<>>
  /\ emitted' = <<>>
  /\ lastOp' = "hide"
  /\ lastDir' = 0
  /\ pre' = session
  /\ threw' = FALSE
  /\ UNCHANGED callVars
  /\ UNCHANGED <<projectConfig, tasks, currentView, currentSprintId,
                 searchResults, searchSelectedIndex>>

\* mutant of performSearch: the cursor stays where it was
performSearch_keepIndex(query) ==
  /\ inputValue' = query
  /\ searchResults' = rankedResults(tasks, query)
  /\ emitted' = <<>>
  /\ lastOp' = "performSearch"
  /\ lastDir' = 0
  /\ pre' = session
  /\ threw' = FALSE
  /\ UNCHANGED callVars
  /\ UNCHANGED <<projectConfig, tasks, currentView, currentSprintId,
                 modalActive, searchSelectedIndex>>

\* mutant of performSearch: the ranking of the previous input lands after
\* the input changed
performSearch_stale(query) ==
  /\ inputValue' = query
  /\ searchResults' = rankedResults(tasks, inputValue)
  /\ searchSelectedIndex' = 0
  /\ emitted' = <<>>
  /\ lastOp' = "performSearch"
  /\ lastDir' = 0
  /\ pre' = session
  /\ threw' = FALSE
  /\ UNCHANGED callVars
  /\ UNCHANGED <<projectConfig, tasks, currentView, currentSprintId,
                 modalActive>>

\* mutant of performSearch: sorts the host's list itself, not a copy
performSearch_sortInPlace(query) ==
  /\ inputValue' = query
  /\ searchResults' = rankedResults(tasks, query)
  /\ searchSelectedIndex' = 0
  /\ tasks' = IF trim(query) = <<>> THEN tasks
              ELSE LET sorted == sortByScore(
                         [k \in 1..Len(tasks) |-> fuzzyEntry(tasks[k], query)])
                   IN [k \in 1..Len(tasks) |-> sorted[k].task]
  /\ emitted' = <<>>
  /\ lastOp' = "performSearch"
  /\ lastDir' = 0
  /\ pre' = session
  /\ threw' = FALSE
  /\ UNCHANGED callVars
  /\ UNCHANGED <<projectConfig, currentView, currentSprintId, modalActive>>

\* 'input' event on #searchInput -> SearchController.performSearch
performSearch(query) ==
  /\ inputValue' = query
  /\ IF rankingThrows(tasks, query)
     THEN /\ threw' = TRUE
          /\ UNCHANGED <<searchResults, searchSelectedIndex>>
     ELSE /\ threw' = FALSE
          /\ searchResults' = rankedResults(tasks, query)
          /\ searchSelectedIndex' = 0
  /\ emitted' = <<>>
  /\ lastOp' = "performSearch"
  /\ lastDir' = 0
  /\ pre' = session
  /\ UNCHANGED callVars
  /\ UNCHANGED <<projectConfig, tasks, currentView, currentSprintId,
                 modalActive>>

\* mutant of wrapIndex: the cursor stops at both ends of the list
wrapIndex_clamp(index, direction, n) ==
  IF index + direction < 0 THEN 0 ELSE Min(index + direction, n - 1)

\* (this.searchSelectedIndex + direction + n) % n of navigateResults, n the
\* number of results
wrapIndex(index, direction, n) == jsRemainder(index + direction + n, n)

\* mutant of navigateResults: the cursor stops at both ends of the list
navigateResults_clamp(direction) ==
  /\ IF Len(searchResults) = 0
     THEN UNCHANGED searchSelectedIndex
     ELSE searchSelectedIndex' =
            IF searchSelectedIndex + direction < 0 THEN 0
            ELSE Min(searchSelectedIndex + direction, Len(searchResults) - 1)
  /\ emitted' = <<>>
  /\ lastOp' = "navigateResults"
  /\ lastDir' = direction
  /\ pre' = session
  /\ threw' = FALSE
  /\ UNCHANGED callVars
  /\ UNCHANGED <<projectConfig, tasks, currentView, currentSprintId,
                 modalActive, inputValue, searchResults>>

\* mutant of navigateResults: the remainder is taken without adding the
\* length first
navigateResults_noAdd(direction) ==
  /\ IF Len(searchResults) = 0
     THEN UNCHANGED searchSelectedIndex
     ELSE searchSelectedIndex' =
            jsRemainder(searchSelectedIndex + direction, Len(searchResults))
  /\ emitted' = <<>>
  /\ lastOp' = "navigateResults"
  /\ lastDir' = direction
  /\ pre' = session
  /\ threw' = FALSE
  /\ UNCHANGED callVars
  /\ UNCHANGED <<projectConfig, tasks, currentView, currentSprintId,
                 modalActive, inputValue, searchResults>>

\* mutant of navigateResults: ranks again before it renders
navigateResults_rerank(direction) ==
  /\ IF Len(searchResults) = 0
     THEN UNCHANGED searchSelectedIndex
     ELSE searchSelectedIndex' =
            wrapIndex(searchSelectedIndex, direction, Len(searchResults))
  /\ searchResults' = rankedResults(tasks, inputValue)
  /\ emitted' = <<>>
  /\ lastOp' = "navigateResults"
  /\ lastDir' = direction
  /\ pre' = session
  /\ threw' = FALSE
  /\ UNCHANGED callVars
  /\ UNCHANGED <<projectConfig, tasks, currentView, currentSprintId,
                 modalActive, inputValue>>

\* ArrowDown / ArrowUp -> SearchController.navigateResults
navigateResults(direction) ==
  /\ IF Len(searchResults) = 0
     THEN UNCHANGED searchSelectedIndex
     ELSE searchSelectedIndex' =
            wrapIndex(searchSelectedIndex, direction, Len(searchResults))
  /\ emitted' = <<>>
  /\ lastOp' = "navigateResults"
  /\ lastDir' = direction
  /\ pre' = session
  /\ threw' = FALSE
  /\ UNCHANGED callVars
  /\ UNCHANGED <<projectConfig, tasks, currentView, currentSprintId,
                 modalActive, inputValue, searchResults>>

\* mutant of selectAt: always opens the top result
selectAt_first(index) ==
  IF Len(searchResults) = 0 \/ index >= Len(searchResults)
  THEN /\ emitted' = <<>>
       /\ UNCHANGED <<modalActive, inputValue, currentView, currentSprintId>>
  ELSE LET task == searchResults[1].task
       IN /\ modalActive' = FALSE
          /\ inputValue' = <<>>
          /\ IF task.sprint # NoSprint
             THEN currentView' = "sprint" /\ currentSprintId' = task.sprint
             ELSE currentView' = "backlog" /\ currentSprintId' = NoSprint
          /\ emitted' = <<task>>

\* mutant of selectAt: hides the modal before looking at the results
selectAt_hideFirst(index) ==
  IF Len(searchResults) = 0 \/ index >= Len(searchResults)
  THEN /\ emitted' = <<>>
       /\ modalActive' = FALSE
       /\ inputValue' = <<>>
       /\ UNCHANGED <<currentView, currentSprintId>>
  ELSE LET task == searchResults[index + 1].task
       IN /\ modalActive' = FALSE
          /\ inputValue' = <<>>
          /\ IF task.sprint # NoSprint
             THEN currentView' = "sprint" /\ currentSprintId' = task.sprint
             ELSE currentView' = "backlog" /\ currentSprintId' = NoSprint
          /\ emitted' = <<task>>

\* body of SearchController.selectResult with the cursor at index
selectAt(index) ==
  IF Len(searchResults) = 0 \/ index >= Len(searchResults)
  THEN /\ emitted' = <<>>
       /\ UNCHANGED <<modalActive, inputValue, currentView, currentSprintId>>
  ELSE LET task == searchResults[index + 1].task
       IN /\ modalActive' = FALSE
          /\ inputValue' = <<>>
          /\ IF task.sprint # NoSprint
             THEN currentView' = "sprint" /\ currentSprintId' = task.sprint
             ELSE currentView' = "backlog" /\ currentSprintId' = NoSprint
          /\ emitted' = <<task>>

\* Enter -> SearchController.selectResult
selectResult ==
  /\ selectAt(searchSelectedIndex)
  /\ lastOp' = "selectResult"
  /\ lastDir' = 0
  /\ pre' = session
  /\ threw' = FALSE
  /\ UNCHANGED callVars
  /\ UNCHANGED <<projectConfig, tasks, searchResults, searchSelectedIndex>>

\* click on a rendered .search-result-item (renderResults click handler)
clickResult(index) ==
  /\ index < Len(searchResults)
  /\ searchSelectedIndex' = index
  /\ selectAt(index)
  /\ lastOp' = "click"
  /\ lastDir' = 0
  /\ pre' = session
  /\ threw' = FALSE
  /\ UNCHANGED callVars
  /\ UNCHANGED <<projectConfig, tasks, searchResults>>

Next ==
  \/ \E newTasks \in TaskLists : loadProject(newTasks)
  \/ \E newTasks \in TaskLists : loadAllData(newTasks)
  \/ show
  \/ hide
  \/ \E query \in Queries : performSearch(query)
  \/ \E direction \in {1, -1} : navigateResults(direction)
  \/ selectResult
  \/ \E index \in 0..(ResultLimit - 1) : clickResult(index)

Spec == Init /\ [][Next]_vars

----------------------------------------------------------------------------
(* Direct calls of the pure methods fuzzyMatch and highlightMatches *)

MatchInit ==
  /\ SessionInit
  /\ argText \in Texts
  /\ CallIdle

\* this.fuzzyMatch(argText, query) and this.fuzzyMatch(other, query)
callFuzzyMatch(query, other) ==
  /\ callPc = "idle"
  /\ argQuery' = query
  /\ argOther' = other
  /\ retMatch' = fuzzyMatch(argText, query)
  /\ retOther' = fuzzyMatch(other, query)
  /\ callPc' = "matched"
  /\ UNCHANGED <<argText, argPositions, retHighlight>>
  /\ UNCHANGED sessionVars

\* this.highlightMatches(argText, positions)
callHighlightMatches(positions) ==
  /\ callPc = "idle"
  /\ argPositions' = positions
  /\ retHighlight' = highlightMatches(argText, positions)
  /\ callPc' = "highlighted"
  /\ UNCHANGED <<argText, argOther, argQuery, retMatch, retOther>>
  /\ UNCHANGED sessionVars

MatchNext ==
  \/ \E query \in MatchQueries, other \in Texts : callFuzzyMatch(query, other)
  \/ \E positions \in PositionLists(argText) : callHighlightMatches(positions)

MatchSpec == MatchInit /\ [][MatchNext]_vars

----------------------------------------------------------------------------
(* A project with a malformed task file *)

\* the same handlers on a project whose tasks directory holds the malformed
\* task file
NextMalformed ==
  \/ \E newTasks \in MalformedTaskLists : loadProject(newTasks)
  \/ \E newTasks \in MalformedTaskLists : loadAllData(newTasks)
  \/ show
  \/ hide
  \/ \E query \in Queries : performSearch(query)
  \/ \E direction \in {1, -1} : navigateResults(direction)
  \/ selectResult
  \/ \E index \in 0..(ResultLimit - 1) : clickResult(index)

MalformedSpec == Init /\ [][NextMalformed]_vars

----------------------------------------------------------------------------
(* Vocabulary of the properties *)

\* query is a case-insensitive ordered subsequence of text (any embedding)
RECURSIVE isSubsequence(_, _)
isSubsequence(query, text) ==
  \/ query = <<>>
  \/ /\ text # <<>>
     /\ \/ /\ toLowerCaseChar(Head(text)) = toLowerCaseChar(Head(query))
           /\ isSubsequence(Tail(query), Tail(text))
        \/ isSubsequence(query, Tail(text))

\* the tasks of the current list whose title the query matches
matchingTasks(query) ==
  {k \in 1..Len(tasks) : isSubsequence(query, tasks[k].title)}

\* the tasks shown in the results
resultTasks == {searchResults[k].task : k \in 1..Len(searchResults)}

\* position of a task in the host's list
positionOf(task) == CHOOSE k \in 1..Len(tasks) : tasks[k] = task

\* the last step ranked the current task list for the current input
justRanked == lastOp \in {"performSearch", "show"}

\* the input holds something other than blanks
nonBlank(query) == trim(query) # <<>>

----------------------------------------------------------------------------
(* Properties *)

\* C2: selectResult on an open session with results closes it and hands
\* exactly one task to the host, the one under the cursor when Enter is hit.
C2_CommitEmitsSelected ==
  [][(lastOp' = "selectResult" /\ modalActive /\ Len(searchResults) > 0)
       => /\ ~modalActive'
          /\ emitted' = <<searchResults[searchSelectedIndex + 1].task>>]_vars

C2_Witness ==
  /\ lastOp = "selectResult"
  /\ pre.active /\ pre.moved
  /\ ~modalActive
  /\ Len(emitted) = 1
  /\ emitted[1] = searchResults[searchSelectedIndex + 1].task
  /\ emitted[1] # searchResults[1].task

\* C3: selectResult on an open session without results does nothing: no
\* task is handed over, the modal stays open, input, results and cursor keep
\* their values.
C3_CommitOnEmptyIsNoOp ==
  [][(lastOp' = "selectResult" /\ modalActive /\ Len(searchResults) = 0)
       => /\ emitted' = <<>>
          /\ modalActive'
          /\ UNCHANGED <<inputValue, searchResults, searchSelectedIndex>>]_vars

C3_Witness ==
  /\ lastOp = "selectResult"
  /\ modalActive
  /\ pre.active /\ pre.typed
  /\ searchResults = <<>>
  /\ inputValue = <<"x","y","z">>
  /\ emitted = <<>>

\* C4: navigateResults leaves the cursor alone when there are no results;
\* otherwise the cursor becomes (cursor + direction + n) mod n: one step
\* inside the list, from the last entry down to 0, from entry 0 up to n - 1.
C4_NavigateWraps ==
  [][lastOp' = "navigateResults"
       => LET n == Len(searchResults)
              d == lastDir'
          IN IF n = 0
             THEN searchSelectedIndex' = searchSelectedIndex
             ELSE /\ searchSelectedIndex' \in 0..(n - 1)
                  /\ \E m \in {-1, 0, 1} :
                       searchSelectedIndex' + m * n
                         = searchSelectedIndex + d
                  /\ (d = 1 /\ searchSelectedIndex = n - 1)
                       => searchSelectedIndex' = 0
                  /\ (d = -1 /\ searchSelectedIndex = 0)
                       => searchSelectedIndex' = n - 1]_vars

C4_Witness ==
  /\ lastOp = "navigateResults"
  /\ lastDir = -1
  /\ Len(searchResults) >= 3
  /\ searchSelectedIndex = Len(searchResults) - 1
  /\ ~pre.moved

\* C5: after performSearch(q) the cursor is 0 and the results are the
\* ranking of the current task list for q, wherever the cursor was before.
C5_SetQueryResets ==
  lastOp = "performSearch"
    => /\ searchSelectedIndex = 0
       /\ searchResults = rankedResults(tasks, inputValue)

C5_Witness ==
  /\ lastOp = "performSearch"
  /\ pre.active /\ pre.moved
  /\ inputValue = <<"l","o","g">>
  /\ Len(searchResults) >= 2
  /\ searchSelectedIndex = 0

\* C6: after show the modal is open, the input is empty, the cursor is 0 and
\* the results are the browse view: the first 10 tasks in list order, score
\* 0, title without marks.
C6_OpenResets ==
  lastOp = "show"
    => /\ modalActive
       /\ inputValue = <<>>
       /\ searchSelectedIndex = 0
       /\ Len(searchResults) = Min(ResultLimit, Len(tasks))
       /\ \A k \in 1..Len(searchResults) :
            /\ searchResults[k].task = tasks[k]
            /\ searchResults[k].score = 0
            /\ searchResults[k].highlighted = escapeHtml(tasks[k].title)

C6_Witness ==
  /\ lastOp = "show"
  /\ pre.active /\ pre.typed /\ pre.moved
  /\ Len(tasks) > ResultLimit
  /\ Len(searchResults) = ResultLimit

\* C7: hide on an open session closes it, empties the input, leaves no
\* results and no cursor position behind, and hands nothing to the host.
C7_CloseDiscards ==
  (lastOp = "hide" /\ pre.active)
    => /\ ~modalActive
       /\ inputValue = <<>>
       /\ searchResults = <<>>
       /\ searchSelectedIndex = 0
       /\ emitted = <<>>

\* C8: after performSearch on an open session with a query that is not
\* blank, a task is among the results if and only if the query is a
\* case-insensitive ordered subsequence of its title, whatever the score of
\* the match (stated where the limit of 10 does not cut the list).
C8_ExactlyMatchesRanked ==
  (lastOp = "performSearch" /\ modalActive /\ nonBlank(inputValue)
     /\ Cardinality(matchingTasks(inputValue)) <= ResultLimit)
    => \A k \in 1..Len(tasks) :
         (tasks[k] \in resultTasks) <=> (k \in matchingTasks(inputValue))

\* C9: after performSearch with a non-empty query the results are in
\* descending score order and results of equal score are in list order.
C9_SortedStable ==
  (lastOp = "performSearch" /\ inputValue # <<>>)
    => \A i, j \in 1..Len(searchResults) :
         i < j =>
           /\ searchResults[i].score >= searchResults[j].score
           /\ searchResults[i].score = searchResults[j].score
                => positionOf(searchResults[i].task)
                     < positionOf(searchResults[j].task)

C9_Witness ==
  /\ lastOp = "performSearch"
  /\ modalActive /\ pre.active
  /\ inputValue = <<"l","o","g">>
  /\ \E i \in 1..(Len(searchResults) - 1) :
       /\ searchResults[i].score = searchResults[i + 1].score
       /\ positionOf(searchResults[i].task) + 1
            < positionOf(searchResults[i + 1].task)
  /\ \E i \in 1..(Len(searchResults) - 1) :
       /\ searchResults[i].score > searchResults[i + 1].score
       /\ positionOf(searchResults[i].task)
            > positionOf(searchResults[i + 1].task)

\* C10: there are never more than 10 results; right after a ranking on an
\* open session there are exactly min(10, number of matching tasks) of them,
\* and no matching task left out is ranked before a task kept.
C10_LimitAfterSort ==
  /\ Len(searchResults) <= ResultLimit
  /\ (justRanked /\ modalActive
        /\ (inputValue = <<>> \/ nonBlank(inputValue)))
       => /\ Len(searchResults)
               = Min(ResultLimit, Cardinality(matchingTasks(inputValue)))
          /\ \A k \in matchingTasks(inputValue) :
               tasks[k] \notin resultTasks
                 => \A i \in 1..Len(searchResults) :
                      \/ searchResults[i].score
                           > fuzzyMatch(tasks[k].title, inputValue).score
                      \/ /\ searchResults[i].score
                              = fuzzyMatch(tasks[k].title, inputValue).score
                         /\ positionOf(searchResults[i].task) < k

\* the results are the first 10 tasks in list order, score 0, titles unmarked
isBrowseView ==
  /\ Len(searchResults) = Min(ResultLimit, Len(tasks))
  /\ \A k \in 1..Len(searchResults) :
       /\ searchResults[k].task = tasks[k]
       /\ searchResults[k].score = 0
       /\ searchResults[k].highlighted = escapeHtml(tasks[k].title)

\* every result is a task the query matches, with the matcher's score and
\* the matcher's positions marked in its title
throughMatcher(query) ==
  \A k \in 1..Len(searchResults) :
    LET e == searchResults[k]
        m == fuzzyMatch(e.task.title, query)
    IN /\ isSubsequence(query, e.task.title)
       /\ e.score = m.score
       /\ e.highlighted = highlightMatches(e.task.title, m.matches)
       /\ e.highlighted # escapeHtml(e.task.title)

\* C11 as claimed: performSearch gives the browse view for the empty string
\* and ranks every other query, whitespace-only ones included, through the
\* matcher.
C11_BrowseOnlyOnEmpty ==
  (lastOp = "performSearch" /\ modalActive)
    => IF inputValue = <<>>
       THEN isBrowseView
       ELSE throughMatcher(inputValue)

\* C11 amended: performSearch gives the browse view exactly for the blank
\* queries (empty once trimmed: the empty string and whitespace-only
\* strings) and ranks every query holding a non-whitespace character through
\* the matcher.
C11_BrowseOnBlank ==
  (lastOp = "performSearch" /\ modalActive)
    => IF trim(inputValue) = <<>>
       THEN isBrowseView
       ELSE throughMatcher(inputValue)

C11_Witness ==
  /\ lastOp = "performSearch"
  /\ modalActive /\ pre.active
  /\ inputValue = <<" ">>
  /\ Len(searchResults) >= 2
  /\ isBrowseView
  /\ \E k \in 1..Len(searchResults) :
       ~isSubsequence(inputValue, searchResults[k].task.title)

----------------------------------------------------------------------------
(* Properties of fuzzyMatch, checked on direct calls *)

\* the value fuzzyMatch returns when the query is not found
isNoMatch(r) == r = [score |-> -1, matches |-> <<>>]

\* two characters are equal ignoring ASCII case
charEq(a, b) == toLowerCaseChar(a) = toLowerCaseChar(b)

\* text equals query ignoring case
equalsIgnoringCase(t, q) ==
  Len(t) = Len(q) /\ \A k \in 1..Len(q) : charEq(t[k], q[k])

\* text starts with query ignoring case
startsWithIgnoringCase(t, q) ==
  Len(q) <= Len(t) /\ \A k \in 1..Len(q) : charEq(t[k], q[k])

\* a direct call with a non-empty query has returned
matchedNonEmpty == callPc = "matched" /\ argQuery # <<>>

\* C12: for a non-empty query fuzzyMatch reports a match if and only if the
\* query is a case-insensitive ordered subsequence of the text.
C12_MatchIffSubsequence ==
  matchedNonEmpty
    => /\ ~isNoMatch(retMatch) <=> isSubsequence(argQuery, argText)
       /\ ~isNoMatch(retOther) <=> isSubsequence(argQuery, argOther)

C12_Witness ==
  /\ matchedNonEmpty
  /\ argQuery = <<"g","o","l">>
  /\ argText = <<"L","o","g","i","n">>
  /\ isNoMatch(retMatch)
  /\ argOther = <<"Q","&","A">>
  /\ isNoMatch(retOther)

\* C13: for every text, the empty one included, fuzzyMatch with the empty
\* query returns score 0 and no positions.
C13_EmptyQueryMatches ==
  (callPc = "matched" /\ argQuery = <<>>)
    => /\ retMatch = [score |-> 0, matches |-> <<>>]
       /\ retOther = [score |-> 0, matches |-> <<>>]

C13_Witness ==
  /\ callPc = "matched"
  /\ argQuery = <<>>
  /\ argText = <<>>
  /\ argOther = <<"L","o","g","i","n">>
  /\ retMatch.score = 0 /\ retMatch.matches = <<>>

\* C14: on a match the positions are the leftmost greedy embedding: each
\* position holds its query character ignoring case, and no index between
\* the previous position and it does; "dpy" in "Deploy service" is [0, 2, 5].
C14_LeftmostGreedy ==
  (matchedNonEmpty /\ ~isNoMatch(retMatch))
    => LET p == retMatch.matches
       IN /\ Len(p) = Len(argQuery)
          /\ \A k \in 1..Len(p) :
               /\ p[k] \in 0..(Len(argText) - 1)
               /\ charEq(argText[p[k] + 1], argQuery[k])
               /\ \A j \in (IF k = 1 THEN 0 ELSE p[k - 1] + 1)..(p[k] - 1) :
                    ~charEq(argText[j + 1], argQuery[k])
          /\ (argQuery = <<"d","p","y">>
                /\ argText = <<"D","e","p","l","o","y"," ",
                               "s","e","r","v","i","c","e">>)
               => p = <<0, 2, 5>>

C14_Witness ==
  /\ matchedNonEmpty
  /\ argQuery = <<"d","p","y">>
  /\ argText = <<"D","e","p","l","o","y"," ","s","e","r","v","i","c","e">>
  /\ retMatch.matches = <<0, 2, 5>>

\* the positions of a result are strictly increasing indices into the text,
\* one per query character; a no-match has none
wellFormedPositions(r, t, q) ==
  IF isNoMatch(r)
  THEN r.matches = <<>>
  ELSE /\ Len(r.matches) = Len(q)
       /\ \A k \in 1..Len(r.matches) : r.matches[k] \in 0..(Len(t) - 1)
       /\ \A k \in 2..Len(r.matches) : r.matches[k - 1] < r.matches[k]

\* C15: the positions of every match are strictly increasing, in bounds and
\* as many as the query has characters; a no-match has no positions.
C15_PositionsWellFormed ==
  callPc = "matched"
    => /\ wellFormedPositions(retMatch, argText, argQuery)
       /\ wellFormedPositions(retOther, argOther, argQuery)

C15_Witness ==
  /\ callPc = "matched"
  /\ argQuery = <<"o","o">>
  /\ argText = <<"L","o","g","o","u","t">>
  /\ retMatch.matches = <<1, 3>>
  /\ argOther = <<"L","o","g","i","n">>
  /\ isNoMatch(retOther)

\* the score the scoring rules give a match at positions p
expectedScore(t, q, p) ==
  100
  + (IF equalsIgnoringCase(t, q) THEN 1000 ELSE 0)
  + (IF startsWithIgnoringCase(t, q) THEN 500 ELSE 0)
  + 50 * Cardinality({k \in 2..Len(p) : p[k] = p[k - 1] + 1})
  - 2 * p[1]
  - 5 * (p[Len(p)] - p[1] - (Len(p) - 1))

\* C16: the score of a match with a non-empty query is 100, plus 1000 for
\* an exact match, plus 500 for a prefix match, plus 50 per contiguous pair
\* of positions, minus twice the first position, minus 5 per gap character;
\* an exact match gets both bonuses.
C16_ScoreFormula ==
  (matchedNonEmpty /\ ~isNoMatch(retMatch))
    => /\ retMatch.score = expectedScore(argText, argQuery, retMatch.matches)
       /\ equalsIgnoringCase(argText, argQuery)
            => retMatch.score = 1600 + 50 * (Len(argQuery) - 1)

C16_Witness ==
  /\ matchedNonEmpty
  /\ argQuery = <<"l","o","g","i","n">>
  /\ argText = <<"L","o","g","i","n">>
  /\ retMatch.score = 1800

\* the query matches the text without being a prefix of it
midMatch(r, t, q) == ~isNoMatch(r) /\ ~startsWithIgnoringCase(t, q)

\* the text starts with the query and is longer
longerPrefix(t, q) == startsWithIgnoringCase(t, q) /\ Len(t) > Len(q)

\* C17: for one non-empty query, a text equal to it scores higher than a
\* longer text starting with it, which scores higher than a text matching
\* it elsewhere.
C17_ExactPrefixMid ==
  matchedNonEmpty
    => /\ (equalsIgnoringCase(argText, argQuery)
             /\ longerPrefix(argOther, argQuery))
            => retMatch.score > retOther.score
       /\ (longerPrefix(argText, argQuery)
             /\ midMatch(retOther, argOther, argQuery))
            => retMatch.score > retOther.score
       /\ (equalsIgnoringCase(argText, argQuery)
             /\ midMatch(retOther, argOther, argQuery))
            => retMatch.score > retOther.score

C17_Witness ==
  /\ matchedNonEmpty
  /\ argQuery = <<"l","o","g","i","n">>
  /\ argText = <<"L","o","g","i","n">>
  /\ argOther = <<"L","o","g","i","n"," ","f","l","o","w">>
  /\ retMatch.score = 1800
  /\ retOther.score = 800

----------------------------------------------------------------------------
(* Properties of highlightMatches, checked on direct calls *)

\* the runs of a highlighted string: the stretches inside <mark>...</mark>
\* are matched runs, the stretches outside are plain runs
RECURSIVE parseRuns(_, _, _, _)
parseRuns(html, inMark, current, runs) ==
  IF html = <<>>
  THEN IF current # <<>> \/ inMark
       THEN Append(runs, [matched |-> inMark, text |-> current])
       ELSE runs
  ELSE IF startsWith(html, MarkOpen)
  THEN parseRuns(SubSeq(html, Len(MarkOpen) + 1, Len(html)), TRUE, <<>>,
                 IF current # <<>>
                 THEN Append(runs, [matched |-> FALSE, text |-> current])
                 ELSE runs)
  ELSE IF startsWith(html, MarkClose)
  THEN parseRuns(SubSeq(html, Len(MarkClose) + 1, Len(html)), FALSE, <<>>,
                 Append(runs, [matched |-> TRUE, text |-> current]))
  ELSE parseRuns(Tail(html), inMark, Append(current, Head(html)), runs)

runsOf(html) == parseRuns(html, FALSE, <<>>, <<>>)

\* the run texts joined in order, tags dropped
RECURSIVE concatRuns(_)
concatRuns(runs) ==
  IF runs = <<>> THEN <<>> ELSE Head(runs).text \o concatRuns(Tail(runs))

\* what an HTML parser reads back from escaped text
RECURSIVE unescapeHtml(_)
unescapeHtml(s) ==
  IF s = <<>> THEN <<>>
  ELSE IF startsWith(s, <<"&","a","m","p",";">>)
  THEN <<"&">> \o unescapeHtml(SubSeq(s, 6, Len(s)))
  ELSE IF startsWith(s, <<"&","l","t",";">>)
  THEN <<"<">> \o unescapeHtml(SubSeq(s, 5, Len(s)))
  ELSE IF startsWith(s, <<"&","g","t",";">>)
  THEN <<">">> \o unescapeHtml(SubSeq(s, 5, Len(s)))
  ELSE <<Head(s)>> \o unescapeHtml(Tail(s))

\* the indices of the text that lie in matched runs k..Len(runs), the run k
\* starting at index offset
RECURSIVE markedIndices(_, _, _)
markedIndices(runs, k, offset) ==
  IF k > Len(runs) THEN {}
  ELSE LET n == Len(unescapeHtml(runs[k].text))
       IN (IF runs[k].matched THEN offset..(offset + n - 1) ELSE {})
            \cup markedIndices(runs, k + 1, offset + n)

C19_RunsAreMaximalGroups ==
  callPc = "highlighted"
    => LET runs == runsOf(retHighlight)
       IN /\ markedIndices(runs, 1, 0)
               = {argPositions[k] : k \in 1..Len(argPositions)}
          /\ \A k \in 1..Len(runs) : runs[k].text # <<>>
          /\ \A k \in 2..Len(runs) : runs[k].matched # runs[k - 1].matched
          /\ argPositions = <<>>
               => /\ retHighlight = escapeHtml(argText)
                  /\ \A k \in 1..Len(runs) : ~runs[k].matched
                  /\ Len(runs) <= 1
          /\ (argText # <<>> /\ Len(argPositions) = Len(argText))
               => Len(runs) = 1 /\ runs[1].matched

C19_Witness ==
  /\ callPc = "highlighted"
  /\ argText = <<"L","o","g","o","u","t">>
  /\ argPositions = <<0, 1, 3, 5>>
  /\ Len(runsOf(retHighlight)) = 5
  /\ runsOf(retHighlight)[1] = [matched |-> TRUE, text |-> <<"L","o">>]

----------------------------------------------------------------------------
(* Properties of a session on a project with a malformed task file *)

\* C20: performSearch never faults, whatever the query and the titles of the
\* tasks (a task file without a title included): it completes with the cursor
\* on the first row and a list of results that are tasks of the project and,
\* for a query that is not blank, have a title the query matches.
C20_NeverFaults ==
  lastOp = "performSearch"
    => /\ ~threw
       /\ searchSelectedIndex = 0
       /\ \A i \in 1..Len(searchResults) :
            /\ \E k \in 1..Len(tasks) : tasks[k] = searchResults[i].task
            /\ nonBlank(inputValue)
                 => /\ searchResults[i].task.title # Null
                    /\ isSubsequence(inputValue, searchResults[i].task.title)

----------------------------------------------------------------------------
(* Properties of the session and the host's task list *)

\* the handlers of SearchController
SessionOps ==
  {"show", "hide", "performSearch", "navigateResults", "selectResult", "click"}

\* C21: no step of the session (show, performSearch, navigateResults,
\* selectResult, click, hide) changes App.tasks: same elements, same order,
\* same fields after the step as before it.
C21_TasksNotMutated ==
  [][lastOp' \in SessionOps => tasks' = tasks]_vars

\* a ranking that put a later task of the list first, the list as loaded
C21_Witness ==
  /\ lastOp = "performSearch"
  /\ Len(searchResults) >= 2
  /\ Len(tasks) >= 4
  /\ searchResults[1].task = tasks[4]
  /\ \E i \in 2..Len(searchResults) : searchResults[i].task = tasks[1]
  /\ tasks = SubSeq(Pool, 1, Len(tasks))

\* the ids of the tasks the host holds now
currentIds == {tasks[k].id : k \in 1..Len(tasks)}

\* C22: while the search modal is open every result is a task of the host's
\* current list, also after the list was reloaded under the open modal, and
\* a task handed to the task modal by a commit is a task of that list.
C22_ResultsAreCurrent ==
  /\ modalActive
       => \A i \in 1..Len(searchResults) :
            searchResults[i].task.id \in currentIds
  /\ (lastOp \in {"selectResult", "click"} /\ emitted # <<>>)
       => emitted[1].id \in currentIds

\* every result is an entry of the browse branch: score 0, nothing marked
unranked ==
  \A k \in 1..Len(searchResults) :
    /\ searchResults[k].score = 0
    /\ searchResults[k].highlighted = escapeHtml(searchResults[k].task.title)

\* C23: in every state of an open session the results are those of the
\* input's current value: matched, scored and marked with that query when it
\* is not blank, unranked when it is; results of an earlier query never stay
\* or come back under a later one.
C23_LastQueryWins ==
  modalActive
    => IF nonBlank(inputValue)
       THEN throughMatcher(inputValue)
       ELSE unranked

\* a second query typed over a first one, with results
C23_Witness ==
  /\ modalActive
  /\ lastOp = "performSearch"
  /\ pre.active /\ pre.typed
  /\ inputValue = <<"o">>
  /\ Len(searchResults) >= 2

\* the session of the scenario: the two login tasks loaded, "login" typed,
\* both ranked, the cursor at index
scenarioAt(index) ==
  /\ tasks = SubSeq(Pool, 1, 2)
  /\ modalActive
  /\ inputValue = <<"l","o","g","i","n">>
  /\ Len(searchResults) = 2
  /\ searchResults[1].task.id = 1
  /\ searchResults[2].task.id = 2
  /\ searchSelectedIndex = index

\* C24: with tasks [#1 "Fix login bug", #2 "Add login page"] and the modal
\* open, typing "login" gives two results of equal score, #1 first as in the
\* list, cursor 0; ArrowDown moves the cursor to 1; ArrowDown again wraps it
\* to 0; Enter then hands task #1 to the host.
C24_SessionScenario ==
  [][/\ (tasks = SubSeq(Pool, 1, 2) /\ modalActive
          /\ lastOp' = "performSearch"
          /\ inputValue' = <<"l","o","g","i","n">>)
         => /\ scenarioAt(0)'
            /\ searchResults'[1].score = searchResults'[2].score
     /\ (scenarioAt(0) /\ lastOp' = "navigateResults" /\ lastDir' = 1)
         => scenarioAt(1)'
     /\ (scenarioAt(1) /\ lastOp' = "navigateResults" /\ lastDir' = 1)
         => scenarioAt(0)'
     /\ (scenarioAt(0) /\ lastOp' = "selectResult")
         => /\ Len(emitted') = 1
            /\ emitted'[1].id = 1
            /\ ~modalActive'
    ]_vars

\* Enter at the end of the scenario: both tasks ranked with the score of
\* "login" inside their titles, task #1 handed over
C24_Witness ==
  /\ lastOp = "selectResult"
  /\ tasks = SubSeq(Pool, 1, 2)
  /\ pre.active /\ pre.typed /\ ~pre.moved
  /\ Len(searchResults) = 2
  /\ searchResults[1].task.id = 1
  /\ searchResults[1].score
       = fuzzyMatch(Pool[1].title, <<"l","o","g","i","n">>).score
  /\ searchResults[2].score = searchResults[1].score
  /\ emitted = <<Pool[1]>>

----------------------------------------------------------------------------
(* Properties of the cursor *)

\* C26: in every reachable state the cursor is 0 when there are no results
\* and an index of the results list otherwise.
C26_CursorInRange ==
  IF Len(searchResults) = 0
  THEN searchSelectedIndex = 0
  ELSE searchSelectedIndex \in 0..(Len(searchResults) - 1)

\* ArrowDown on the last entry of an open session brought the cursor to 0
C26_Witness ==
  /\ lastOp = "navigateResults"
  /\ lastDir = 1
  /\ pre.active /\ pre.moved
  /\ Len(searchResults) >= 2
  /\ searchSelectedIndex = 0

\* the last step closed an open session: hide, or a commit that handed a
\* task to the host
justClosed ==
  /\ ~modalActive
  /\ pre.active
  /\ lastOp \in {"hide", "selectResult", "click"}

\* C27: on a session that hide or a commit has just closed, Enter and the
\* arrow keys hand no task to the host and change nothing of the session or
\* of the host's view; a second Enter after a commit does not hand the task
\* over again.
C27_ClosedIsInert ==
  [][(justClosed /\ lastOp' \in {"selectResult", "navigateResults"})
       => /\ emitted' = <<>>
          /\ UNCHANGED <<modalActive, inputValue, searchResults,
                         searchSelectedIndex, currentView, currentSprintId>>
    ]_vars

\* C28: navigateResults changes the cursor only: the input, the results
\* (entries, order, scores, highlighted titles), the host's task list and
\* view and the open modal are as before, and nothing is handed to the host.
C28_NavigateFrame ==
  [][lastOp' = "navigateResults"
       => /\ UNCHANGED <<inputValue, searchResults, tasks, modalActive,
                         currentView, currentSprintId, projectConfig>>
          /\ emitted' = <<>>
    ]_vars

\* ArrowDown moved the cursor of an open session with a typed query
C28_Witness ==
  /\ lastOp = "navigateResults"
  /\ lastDir = 1
  /\ pre.active /\ pre.typed /\ ~pre.moved
  /\ modalActive
  /\ nonBlank(inputValue)
  /\ Len(searchResults) >= 2
  /\ searchSelectedIndex = 1

\* the cursor after each of k ArrowDown in a row, starting from index
RECURSIVE walkDown(_, _, _)
walkDown(index, n, k) ==
  IF k = 0 THEN <<>>
  ELSE LET next == wrapIndex(index, 1, n)
       IN <<next>> \o walkDown(next, n, k - 1)

\* C29: from any state of an open session with n > 0 results, ArrowDown then
\* ArrowUp, and ArrowUp then ArrowDown, bring the cursor back; n ArrowDown
\* in a row visit every index once and end on the index they started from.
C29_NavigationCycles ==
  (modalActive /\ Len(searchResults) > 0)
    => LET n == Len(searchResults)
           i == searchSelectedIndex
           walk == walkDown(i, n, n)
       IN /\ wrapIndex(wrapIndex(i, 1, n), -1, n) = i
          /\ wrapIndex(wrapIndex(i, -1, n), 1, n) = i
          /\ {walk[k] : k \in 1..n} = 0..(n - 1)
          /\ walk[n] = i

\* ArrowDown reached the last of at least three results
C29_Witness ==
  /\ modalActive
  /\ lastOp = "navigateResults"
  /\ lastDir = 1
  /\ pre.moved
  /\ Len(searchResults) >= 3
  /\ searchSelectedIndex = Len(searchResults) - 1

----------------------------------------------------------------------------
(* Further properties of fuzzyMatch, checked on direct calls *)

\* C25: fuzzyMatch returns the score -1 if and only if the query is not an
\* ordered subsequence of the text, and a query that is one never gets a
\* negative score, which the score >= 0 test of performSearch would take
\* for no match.
C25_NegativeOnlyOnNoMatch ==
  matchedNonEmpty
    => /\ (retMatch.score = -1) <=> ~isSubsequence(argQuery, argText)
       /\ isSubsequence(argQuery, argText) => retMatch.score >= 0

\* the upper-case letter of a lower-case letter, any other character itself
upperChar(c) ==
  IF \E k \in 1..Len(LowerChars) : LowerChars[k] = c
  THEN UpperChars[CHOOSE k \in 1..Len(LowerChars) : LowerChars[k] = c]
  ELSE c

\* a letter in the other case, any other character itself
swapChar(c) == IF upperChar(c) # c THEN upperChar(c) ELSE toLowerCaseChar(c)

upperOf(s) == [k \in 1..Len(s) |-> upperChar(s[k])]

swapOf(s) == [k \in 1..Len(s) |-> swapChar(s[k])]

\* s as it is, in upper case, in lower case, and with every letter in the
\* other case: strings equal to s ignoring ASCII case
caseVariants(s) == {s, upperOf(s), swapOf(upperOf(s)), swapOf(s)}

\* C30: fuzzyMatch gives the same positions and the same score (so the same
\* verdict) for a text and a query and for the same text and query written
\* in any other letter case.
C30_CaseInvariant ==
  callPc = "matched"
    => \A t \in caseVariants(argText), q \in caseVariants(argQuery) :
         /\ equalsIgnoringCase(t, argText)
         /\ equalsIgnoringCase(q, argQuery)
         /\ fuzzyMatch(t, q) = retMatch

\* "login" matched against "Login": equal but for the case of one letter
C30_Witness ==
  /\ callPc = "matched"
  /\ argText = <<"L","o","g","i","n">>
  /\ argQuery = <<"l","o","g","i","n">>
  /\ argText # argQuery
  /\ retMatch.matches = <<0, 1, 2, 3, 4>>
  /\ retMatch.score >= 1000
  /\ Cardinality(caseVariants(argText)) = 4

====
